---------------------------- MODULE Spec2Model ----------------------------
(***************************************************************************)
(* A model of the response composition engine of mediawiki-based-adv:      *)
(* WordFreqRecorder (the caching, retrying word frequency client) and      *)
(* MediaWikiAdventureBot (respond, getWordFreqs, fillWithRandom).          *)
(*                                                                         *)
(* Every `await` of the source is a point where the environment answers,   *)
(* so every action below is "one answer arrives and the code runs up to    *)
(* its next await".  The answers of the remote services are chosen with \E.*)
(***************************************************************************)
EXTENDS Integers, Sequences, FiniteSets, TLC

(***************************************************************************)
(* Program constants.                                                      *)
(***************************************************************************)
MAX_SENTENCES == 6
MIN_SENTENCES == 2
\* retries: 4 of the retry options the bot hands to WordFreqRecorder.
Retries == 4
\* The commonness threshold of respond's filter (perMillion < 1000).
Threshold == 1000

(***************************************************************************)
(* Bounds of the model.                                                    *)
(***************************************************************************)
\* The longest message, in words.
MaxMsgLen == 2
\* The longest sentence given to addMissingPunctuation, in characters.
MaxSentenceLen == 2
\* The longest message of words whose frequencies are in the cache, in words.
MaxKnownMsgLen == 3

(***************************************************************************)
(* Input domains.                                                          *)
(***************************************************************************)
\* The words a message is made of, as lodash's words() cuts them.
RawWords == {"cat", "Cat", "the"}

\* String.prototype.toLowerCase on the words of the model.
ToLowerCase(w) == IF w = "Cat" THEN "cat" ELSE w

\* The perMillion values the frequency service answers with.
PerMillions == {5, 900, 1000}

\* An IWordFreq (zipf and diversity are never read by the program).
Freq(p) == [kind |-> "freq", perMillion |-> p]
\* The JavaScript value undefined, where an IWordFreq is expected.
Undefined == [kind |-> "undefined", perMillion |-> 0]
\* What reading a missing key of _cache gives the model: no own property.
NoEntry == [kind |-> "none", perMillion |-> 0]

Records == {Freq(p) : p \in PerMillions}

\* The session parameters (_when, _encrypted) the bootstrap page can carry.
Creds == {"k1", "k2"}
\* _when === undefined: no credential was ever fetched.
NoCred == "none"

\* The callers that can have a getFreq call in progress.
Callers == {"c1", "c2"}
\* The caller the bot's getWordFreqs uses, and the only one of a sequential client.
Main == "c1"

VARIABLES
    cache,      \* WordFreqRecorder._cache: word -> NoEntry | Undefined | record
    cred,       \* WordFreqRecorder._when/_encrypted
    calls       \* the getFreq call of each caller

freqVars == <<cache, cred, calls>>

VARIABLES
    rpc,          \* where respond is: idle | freq | search | random | topup |
                  \*   excerpts | done | rejected
    target,       \* wordTitleCount / targetCount
    strWords,     \* getWordFreqs: the words the loop has not reached yet
    wordFreqs,    \* getWordFreqs: the entries of wordFreqs, in insertion order
    wordsByFreq,  \* respond: the candidates not yet spliced off
    currWordTitle,\* respond: the candidate being searched
    wordTitles,   \* respond: wordTitles, until it is handed to fillWithRandom
    nextTitles,   \* fillWithRandom: nextTitles (at first the array respond handed over)
    excerpts,     \* fillWithRandom: excerpts
    response,     \* the sentences joined into the text respond resolved with
    rerror        \* the error respond rejected with

botVars == <<rpc, target, strWords, wordFreqs, wordsByFreq, currWordTitle,
             wordTitles, nextTitles, excerpts, response, rerror>>
vars == <<cache, cred, calls, rpc, target, strWords, wordFreqs, wordsByFreq,
          currWordTitle, wordTitles, nextTitles, excerpts,
          response, rerror>>

(***************************************************************************)
(* A getFreq call.                                                         *)
(*   pc           idle | boot | lookup | refresh | backoff | resolved |    *)
(*                rejected | hung (the promise can no longer settle)       *)
(*   word         the argument                                             *)
(*   attempts     the lookup requests issued so far                        *)
(*   unauthorized the lookups that answered 401                            *)
(*   last         the answer of the latest lookup that was answered        *)
(*   sent         the credential the latest lookup sent                    *)
(*   timeouts     the retry timeouts the RetryOperation still holds        *)
(*   boots        the bootstrap requests issued so far                     *)
(*   refreshes    the credentials fetched after a 401                      *)
(*   refreshed    the credential the latest of them stored                 *)
(*   bootFailed   a bootstrap request of the call failed                   *)
(*   value        what the promise resolved with                           *)
(*   error        what the promise rejected with                           *)
(***************************************************************************)
IdleCall ==
    [pc |-> "idle", word |-> "", attempts |-> 0, unauthorized |-> 0, last |-> "",
     sent |-> "none", timeouts |-> 0, boots |-> 0, refreshes |-> 0,
     refreshed |-> "none", bootFailed |-> FALSE, value |-> NoEntry, error |-> ""]

InFlight == {"boot", "lookup", "refresh", "backoff"}

\* The key getFreq reads and writes: word.toLowerCase().
CacheKey(w) == ToLowerCase(w)

\* A faulty variant: a truthiness test, which takes a stored undefined for a missing key.
IsCachedTruthy(w) == cache[CacheKey(w)].kind = "freq"

\* Object.prototype.hasOwnProperty.call(this._cache, word.toLowerCase()).
IsCached(w) == cache[CacheKey(w)].kind # "none"

\* A faulty variant: retries counted as attempts, the first one included.
NewTimeoutsAsAttempts == Retries - 1

\* retry.operation(this._retryOpts): retry.timeouts makes one timeout per retry.
NewTimeouts == Retries

\* A lookup request goes out with the credential k.
Attempt(call, k) ==
    [call EXCEPT !.pc = "lookup", !.sent = k, !.attempts = @ + 1]

\* retryOp.attempt(fn): the operation is set up and fn makes the first attempt
\* at once.
FirstAttempt(call, k) == Attempt([call EXCEPT !.timeouts = NewTimeouts], k)

\* getFreq up to its first await.
GetFreqStart(c, w) ==
    LET fresh == [IdleCall EXCEPT !.word = w] IN
    /\ IF IsCached(w)
          THEN calls' = [calls EXCEPT ![c] =
                   [fresh EXCEPT !.pc = "resolved", !.value = cache[CacheKey(w)]]]
          ELSE IF cred = NoCred
                  THEN calls' = [calls EXCEPT ![c] =
                           [fresh EXCEPT !.pc = "boot", !.boots = 1]]
                  ELSE calls' = [calls EXCEPT ![c] = FirstAttempt(fresh, cred)]
    /\ UNCHANGED <<cache, cred>>

\* The ways fetchTransportInfo throws.
BootErrors == {"bootstrap request failed", "bootstrap page did not match"}

\* fetchTransportInfo succeeded before the first attempt, which retryOp.attempt
\* then makes at once.
BootOk(c, k) ==
    /\ calls[c].pc = "boot"
    /\ cred' = k
    /\ calls' = [calls EXCEPT ![c] = FirstAttempt(calls[c], k)]
    /\ UNCHANGED cache
    /\ UNCHANGED botVars

\* fetchTransportInfo threw before the first attempt: the request failed, or the
\* page did not match and paramsData[1] threw.  getFreq's await rethrows.
BootFail(c, e) ==
    /\ calls[c].pc = "boot"
    /\ calls' = [calls EXCEPT ![c] =
           [calls[c] EXCEPT !.pc = "rejected", !.error = e, !.bootFailed = TRUE]]
    /\ UNCHANGED <<cache, cred>>
    /\ UNCHANGED botVars

\* The lookup answered with a frequency record: it is cached and resolved.
LookupOk(c, rec) ==
    /\ calls[c].pc = "lookup"
    /\ cache' = [cache EXCEPT ![CacheKey(calls[c].word)] = rec]
    /\ calls' = [calls EXCEPT ![c] =
           [calls[c] EXCEPT !.pc = "resolved", !.value = rec, !.last = "ok"]]
    /\ UNCHANGED cred
    /\ UNCHANGED botVars

\* if (!retryOp.retry(err)) reject(err): a timeout is left and the timer is
\* set, or the call rejects with err.
RetryOrReject(call, e) ==
    IF call.timeouts > 0
        THEN [call EXCEPT !.pc = "backoff", !.timeouts = @ - 1, !.last = e]
        ELSE [call EXCEPT !.pc = "rejected", !.error = e, !.last = e]

\* A faulty variant: a 404 handled like any other failure.
NotFoundRetried(call) == RetryOrReject(call, "404")

\* err.response.status === 404: resolve(undefined).
NotFound(call) ==
    [call EXCEPT !.pc = "resolved", !.value = Undefined, !.last = "404"]

\* The lookup answered 404: undefined is stored and resolved.
Lookup404(c) ==
    /\ calls[c].pc = "lookup"
    /\ LET after == NotFound(calls[c]) IN
        /\ calls' = [calls EXCEPT ![c] = after]
        /\ cache' = IF after.pc = "resolved"
                       THEN [cache EXCEPT ![CacheKey(calls[c].word)] = Undefined]
                       ELSE cache
    /\ UNCHANGED cred
    /\ UNCHANGED botVars

\* A faulty variant: a call that rejects stores undefined for the word.
LookupErrorCached(c) ==
    /\ calls[c].pc = "lookup"
    /\ calls' = [calls EXCEPT ![c] = RetryOrReject(calls[c], "500")]
    /\ cache' = IF calls[c].timeouts = 0
                   THEN [cache EXCEPT ![CacheKey(calls[c].word)] = Undefined]
                   ELSE cache
    /\ UNCHANGED cred
    /\ UNCHANGED botVars

\* The lookup answered with a status other than 404 and 401.
LookupError(c) ==
    /\ calls[c].pc = "lookup"
    /\ calls' = [calls EXCEPT ![c] = RetryOrReject(calls[c], "500")]
    /\ UNCHANGED <<cache, cred>>
    /\ UNCHANGED botVars

\* The lookup answered 401: the handler awaits fetchTransportInfo.
Lookup401(c) ==
    /\ calls[c].pc = "lookup"
    /\ calls' = [calls EXCEPT ![c] =
           [calls[c] EXCEPT !.pc = "refresh", !.last = "401",
                            !.unauthorized = @ + 1, !.boots = @ + 1]]
    /\ UNCHANGED <<cache, cred>>
    /\ UNCHANGED botVars

\* The refresh after a 401 succeeded; the 401 is then retried or rejected.
RefreshOk(c, k) ==
    /\ calls[c].pc = "refresh"
    /\ cred' = k
    /\ calls' = [calls EXCEPT ![c] =
           RetryOrReject([calls[c] EXCEPT !.refreshes = @ + 1, !.refreshed = k], "401")]
    /\ UNCHANGED cache
    /\ UNCHANGED botVars

\* The refresh after a 401 threw inside the attempt's async callback: nothing
\* catches it, and neither resolve nor reject is ever called.
RefreshFailed(call, e) ==
    [call EXCEPT !.pc = "hung", !.bootFailed = TRUE]

\* The refresh after a 401 failed.
RefreshFail(c, e) ==
    /\ calls[c].pc = "refresh"
    /\ calls' = [calls EXCEPT ![c] = RefreshFailed(calls[c], e)]
    /\ UNCHANGED <<cache, cred>>
    /\ UNCHANGED botVars

\* The lookup failed without an HTTP response: err.response is undefined and
\* err.response.status throws inside the attempt's async callback.
LookupNoResponse(c) ==
    /\ calls[c].pc = "lookup"
    /\ calls' = [calls EXCEPT ![c] = [calls[c] EXCEPT !.pc = "hung", !.last = "noresp"]]
    /\ UNCHANGED <<cache, cred>>
    /\ UNCHANGED botVars

\* A faulty variant: the credential is read once, when the call begins.
AttemptCredStale(c) == calls[c].sent

\* params: { when: this._when, encrypted: this._encrypted }, read at each attempt.
AttemptCred(c) == cred

\* The retry timer fires: the next attempt is made.
TimerFire(c) ==
    /\ calls[c].pc = "backoff"
    /\ calls' = [calls EXCEPT ![c] = Attempt(calls[c], AttemptCred(c))]
    /\ UNCHANGED <<cache, cred>>
    /\ UNCHANGED botVars

(***************************************************************************)
(* MediaWikiAdventureBot.                                                  *)
(***************************************************************************)
\* The titles the wiki's search can answer with.
SearchTitles == {"Cat", "The"}
\* The title a random draw answers with (every draw is some article).
RandomTitle == "Rnd"

\* A sentence, as the sequence of its characters.
Sentence == <<"H", "i">>
\* What sbd's sentences() makes of an article: no sentence, or this one.
NoSentences == <<>>
Article == <<Sentence>>
ExcerptSets == {NoSentences, Article}
\* excerpt[0] of an empty excerpt is undefined, and undefined + '.' is this string.
UndefinedDot == <<"u", "n", "d", "e", "f", "i", "n", "e", "d", ".">>

\* The characters of a sentence: two that are not punctuation, and the six
\* addMissingPunctuation's switch names.
Chars == {"a", "b", ".", "!", "?", ":", ";", ","}
\* The strings addMissingPunctuation is given, the empty one included.
SentenceStrings == UNION {[1..n -> Chars] : n \in 0..MaxSentenceLen}

\* The messages respond is called with, as the words lodash's words() finds in them.
Messages == UNION {[1..n -> RawWords] : n \in 0..MaxMsgLen}

\* toArray(str) and the switch on the last character.
EndsInPunctuation(str) ==
    /\ Len(str) > 0
    /\ str[Len(str)] \in {".", "!", "?", ":", ";", ","}

\* A faulty variant: the period is added whatever the last character is.
addPunctuation(str) == Append(str, ".")

\* return str, or return str + '.'.
addMissingPunctuation(str) ==
    IF EndsInPunctuation(str) THEN str ELSE Append(str, ".")

\* randomBetween(MIN_SENTENCES, MAX_SENTENCES): both ends inclusive.
randomBetween(min, max) == min..max

\* n copies of the random title.
RandomTitles(n) == [i \in 1..n |-> RandomTitle]

\* Array.prototype.filter.
RECURSIVE SelectSeqOf(_, _)
SelectSeqOf(s, keep) ==
    IF s = <<>> THEN <<>>
    ELSE IF Head(s) \in keep THEN <<Head(s)>> \o SelectSeqOf(Tail(s), keep)
    ELSE SelectSeqOf(Tail(s), keep)

\* Object.prototype.hasOwnProperty.call(wordFreqs, strWord).
HasWord(wf, w) == \E i \in 1..Len(wf) : wf[i].word = w

\* getWordFreqs: the loop skips the words that already have an entry.
RECURSIVE SkipDuplicates(_, _)
SkipDuplicates(ws, wf) ==
    IF ws = <<>> THEN <<>>
    ELSE IF HasWord(wf, Head(ws)) THEN SkipDuplicates(Tail(ws), wf)
    ELSE ws

\* A faulty variant: the filter with <= for <.
IsInfrequentOrEqual(f) == f.perMillion <= Threshold

\* .filter(word => wordFreqs[word].perMillion < 1000)
IsInfrequent(f) == f.perMillion < Threshold

\* A faulty variant: every word that has an entry is a candidate.
AllEntries(wf) == wf

\* Object.keys(wordFreqs).filter(...), in insertion order.
RECURSIVE Candidates(_)
Candidates(wf) ==
    IF wf = <<>> THEN <<>>
    ELSE IF IsInfrequent(wf[1].freq) THEN <<wf[1]>> \o Candidates(Tail(wf))
    ELSE Candidates(Tail(wf))

\* A faulty variant: the candidates are left in insertion order.
InsertionOrder(cs) == {[i \in 1..Len(cs) |-> cs[i].word]}

\* .sort((a, b) => perMillion(a) - perMillion(b)): the orders a sort may leave
\* the candidates in; the order of equal keys is the engine's choice.
SortedOrders(cs) ==
    {[i \in 1..Len(cs) |-> cs[p[i]].word] :
        p \in {q \in [1..Len(cs) -> 1..Len(cs)] :
                 /\ \A i, j \in 1..Len(cs) : i # j => q[i] # q[j]
                 /\ \A i, j \in 1..Len(cs) :
                        i < j => cs[q[i]].freq.perMillion <= cs[q[j]].freq.perMillion}}

\* The locals of a respond call that has returned.
NoLocals ==
    /\ strWords' = <<>>
    /\ wordFreqs' = <<>>
    /\ wordsByFreq' = <<>>
    /\ currWordTitle' = ""
    /\ wordTitles' = <<>>
    /\ nextTitles' = <<>>
    /\ excerpts' = <<>>

\* respond rejects with e.
Reject(e) ==
    /\ rpc' = "rejected"
    /\ rerror' = e
    /\ response' = <<>>
    /\ NoLocals

\* fillWithRandom, the body of the do loop up to its first await, with the
\* titles ts and the excerpts es.
FillLoop(ts, es) ==
    /\ nextTitles' = ts
    /\ excerpts' = es
    /\ rpc' = IF Len(ts) < target - Len(es) THEN "topup" ELSE "excerpts"

\* return this.fillWithRandom(wordTitles, wordTitleCount): respond never reads
\* its array again, which is fillWithRandom's titles and first nextTitles.
FillWithRandom(ts) ==
    /\ wordTitles' = <<>>
    /\ FillLoop(ts, <<>>)

\* respond from line 119 on, with the word titles ts: the block of the
\* question's words is left, and its constants with it.
AfterSearch(ts) ==
    /\ strWords' = <<>>
    /\ wordFreqs' = <<>>
    /\ wordsByFreq' = <<>>
    /\ currWordTitle' = ""
    /\ IF Len(ts) < target
          THEN /\ wordTitles' = ts
               /\ rpc' = "random"
               /\ UNCHANGED <<nextTitles, excerpts>>
          ELSE FillWithRandom(ts)

\* The while loop of respond up to its await, with the titles ts, the
\* candidates ws and the entries wf.
SearchLoop(ts, ws, wf) ==
    IF Len(ts) < target /\ Len(ws) > 0
        THEN /\ currWordTitle' = Head(ws)
             /\ wordsByFreq' = Tail(ws)
             /\ wordTitles' = ts
             /\ strWords' = <<>>
             /\ wordFreqs' = wf
             /\ rpc' = "search"
             /\ UNCHANGED <<nextTitles, excerpts>>
        ELSE AfterSearch(ts)

\* getWordFreqs' loop up to its await, with the words ws left and the entries
\* wf; when no word is left, respond goes on to filter, sort and search.
WordsLoop(ws, wf) ==
    LET left == SkipDuplicates(ws, wf) IN
    IF left # <<>>
          THEN /\ strWords' = left
               /\ wordFreqs' = wf
               /\ GetFreqStart(Main, Head(left))
               /\ rpc' = "freq"
               /\ UNCHANGED <<wordsByFreq, currWordTitle, wordTitles, nextTitles,
                              excerpts>>
          ELSE /\ calls' = [calls EXCEPT ![Main] = IdleCall]
               /\ UNCHANGED <<cache, cred>>
               /\ \E sorted \in SortedOrders(Candidates(wf)) : SearchLoop(<<>>, sorted, wf)

\* respond is pending for ever: the getFreq promise it awaits never settles.
RespondHung == rpc = "freq" /\ calls[Main].pc = "hung"

\* respond(question), up to its first await.  The caller makes one call at a
\* time; a call that is pending for ever is abandoned.
Respond(question) ==
    /\ rpc \in {"idle", "done", "rejected"} \/ RespondHung
    /\ \E n \in randomBetween(MIN_SENTENCES, MAX_SENTENCES) : target' = n
    /\ response' = <<>>
    /\ rerror' = ""
    /\ IF question # <<>>
          THEN WordsLoop([i \in 1..Len(question) |-> ToLowerCase(question[i])], <<>>)
          ELSE /\ calls' = [calls EXCEPT ![Main] = IdleCall]
               /\ UNCHANGED <<cache, cred>>
               /\ AfterSearch(<<>>)

\* getWordFreqs: the awaited getFreq settled.  A rejection is caught neither by
\* getWordFreqs nor by respond.  (A getFreq promise that never settles leaves
\* respond pending at this await for ever: no step.)
FreqReturn ==
    /\ rpc = "freq"
    /\ calls[Main].pc \in {"resolved", "rejected"}
    /\ UNCHANGED target
    /\ IF calls[Main].pc = "resolved"
          THEN /\ WordsLoop(Tail(strWords),
                            IF calls[Main].value # Undefined
                               THEN Append(wordFreqs,
                                      [word |-> Head(strWords), freq |-> calls[Main].value])
                               ELSE wordFreqs)
               /\ UNCHANGED <<response, rerror>>
          ELSE /\ Reject(calls[Main].error)
               /\ calls' = [calls EXCEPT ![Main] = IdleCall]
               /\ UNCHANGED <<cache, cred>>

\* A faulty variant: the first title found is pushed.
SearchPushFirst(ts, word, found) ==
    IF Len(found) > 0 THEN Append(ts, found[1]) ELSE ts

\* if (searchResult[1].length > 0) wordTitles.push(currWordTitle)
SearchPush(ts, word, found) ==
    IF Len(found) > 0 THEN Append(ts, word) ELSE ts

\* What searchResult[1] can be under limit: 1: no title, or one.
SearchAnswers == {<<>>} \cup {<<t>> : t \in SearchTitles}

\* The opensearch request (limit: 1) answered with the titles found.
SearchAnswer(found) ==
    /\ rpc = "search"
    /\ SearchLoop(SearchPush(wordTitles, currWordTitle, found), wordsByFreq, wordFreqs)
    /\ UNCHANGED <<freqVars, target, response, rerror>>

\* A faulty variant: the failure of the opensearch request is not caught.
SearchFailThrown ==
    /\ rpc = "search"
    /\ Reject("search request failed")
    /\ UNCHANGED <<freqVars, target>>

\* The opensearch request failed: the catch block swallows the error.
SearchFail ==
    /\ rpc = "search"
    /\ SearchLoop(wordTitles, wordsByFreq, wordFreqs)
    /\ UNCHANGED <<freqVars, target, response, rerror>>

\* respond's getRandomTitles(wordTitleCount - wordTitles.length) answered with
\* k titles, at most as many as were asked for.
RandomOk(k) ==
    /\ rpc = "random"
    /\ k <= target - Len(wordTitles)
    /\ FillWithRandom(wordTitles \o RandomTitles(k))
    /\ UNCHANGED <<freqVars, target, strWords, wordFreqs, wordsByFreq, currWordTitle,
                   response, rerror>>

RequestErrors == {"random titles request failed", "excerpts request failed"}

\* A getRandomTitles or getArticleExcerpts request failed: nothing catches it.
RequestFail(e) ==
    /\ \/ rpc = "random" /\ e = "random titles request failed"
       \/ rpc = "topup" /\ e = "random titles request failed"
       \/ rpc = "excerpts" /\ e = "excerpts request failed"
    /\ Reject(e)
    /\ UNCHANGED <<freqVars, target>>

\* The number of titles line 135 asks getRandomTitles for.
TopupCount == target - Len(excerpts)

\* fillWithRandom's getRandomTitles(targetCount - excerpts.length) answered
\* with k titles, at most as many as were asked for; the excerpts request
\* follows.
TopupOk(k) ==
    /\ rpc = "topup"
    /\ k <= TopupCount
    /\ nextTitles' = nextTitles \o RandomTitles(k)
    /\ rpc' = "excerpts"
    /\ UNCHANGED <<freqVars, target, strWords, wordFreqs, wordsByFreq, currWordTitle,
                   wordTitles, excerpts, response, rerror>>

\* The answers an excerpts request for n titles can get: at most one set of
\* sentences per title, e of them with sentences and z without.  (The order of
\* the pages does not matter to the filter that follows.)
ExcerptAnswers(n) ==
    {[i \in 1..(ez[1] + ez[2]) |-> IF i <= ez[1] THEN Article ELSE NoSentences] :
        ez \in {p \in (0..n) \X (0..n) : p[1] + p[2] <= n}}

\* excerpt[Math.floor(Math.random() * excerpt.length)] and addMissingPunctuation:
\* what one excerpt can give the response.
SampleOf(excerpt) ==
    IF excerpt = <<>> THEN {UndefinedDot}
    ELSE {addMissingPunctuation(excerpt[i]) : i \in 1..Len(excerpt)}

\* The responses the excerpts es can make: one sentence of each.
Samples(es) ==
    {r \in [1..Len(es) -> UNION {SampleOf(es[i]) : i \in 1..Len(es)}] :
        \A i \in 1..Len(es) : r[i] \in SampleOf(es[i])}

\* A faulty variant: the empty sets are kept.
KeepAll(newExcerpts) == newExcerpts

\* newExcerpts.filter(newExcerpt => newExcerpt.length > 0)
NonEmpty(newExcerpts) == SelectSeqOf(newExcerpts, ExcerptSets \ {NoSentences})

\* getArticleExcerpts answered: the loop goes round, or the response is sampled,
\* punctuated and returned.
ExcerptsOk(newExcerpts) ==
    /\ rpc = "excerpts"
    /\ newExcerpts \in ExcerptAnswers(Len(nextTitles))
    /\ LET es == excerpts \o NonEmpty(newExcerpts) IN
        IF Len(es) < target
           THEN /\ FillLoop(<<>>, es)
                /\ UNCHANGED <<strWords, wordFreqs, wordsByFreq, currWordTitle,
                               wordTitles, response, rerror>>
           ELSE /\ \E chosen \in Samples(es) : response' = chosen
                /\ rpc' = "done"
                /\ NoLocals
                /\ UNCHANGED rerror
    /\ UNCHANGED <<freqVars, target>>

(***************************************************************************)
(* The specifications.                                                     *)
(***************************************************************************)
Init ==
    /\ cache = [w \in {ToLowerCase(w) : w \in RawWords} |-> NoEntry]
    /\ cred = NoCred
    /\ calls = [c \in Callers |-> IdleCall]
    /\ rpc = "idle"
    /\ target = MIN_SENTENCES
    /\ strWords = <<>>
    /\ wordFreqs = <<>>
    /\ wordsByFreq = <<>>
    /\ currWordTitle = ""
    /\ wordTitles = <<>>
    /\ nextTitles = <<>>
    /\ excerpts = <<>>
    /\ response = <<>>
    /\ rerror = ""

\* The bot, as src/index.ts drives it: one respond call at a time.
Next ==
    \/ \E q \in Messages : Respond(q)
    \/ \E k \in Creds : BootOk(Main, k)
    \/ \E e \in BootErrors : BootFail(Main, e)
    \/ \E rec \in Records : LookupOk(Main, rec)
    \/ Lookup404(Main)
    \/ LookupError(Main)
    \/ Lookup401(Main)
    \/ \E k \in Creds : RefreshOk(Main, k)
    \/ \E e \in BootErrors : RefreshFail(Main, e)
    \/ LookupNoResponse(Main)
    \/ TimerFire(Main)
    \/ FreqReturn
    \/ \E found \in SearchAnswers : SearchAnswer(found)
    \/ SearchFail
    \/ \E k \in 0..MAX_SENTENCES : RandomOk(k)
    \/ \E k \in 0..MAX_SENTENCES : TopupOk(k)
    \/ \E e \in RequestErrors : RequestFail(e)
    \/ \E a \in ExcerptAnswers(Len(nextTitles)) : ExcerptsOk(a)

Spec == Init /\ [][Next]_vars

\* A client of WordFreqRecorder calls getFreq, when no call of its is in progress.
GetFreqCall(w) ==
    /\ calls[Main].pc \notin InFlight
    /\ GetFreqStart(Main, w)
    /\ UNCHANGED botVars

\* WordFreqRecorder alone, with a client that makes one call at a time.
FreqNext ==
    \/ \E w \in RawWords : GetFreqCall(w)
    \/ \E k \in Creds : BootOk(Main, k)
    \/ \E e \in BootErrors : BootFail(Main, e)
    \/ \E rec \in Records : LookupOk(Main, rec)
    \/ Lookup404(Main)
    \/ LookupError(Main)
    \/ Lookup401(Main)
    \/ \E k \in Creds : RefreshOk(Main, k)
    \/ \E e \in BootErrors : RefreshFail(Main, e)
    \/ LookupNoResponse(Main)
    \/ TimerFire(Main)

SpecFreq == Init /\ [][FreqNext]_vars

\* A request of the getFreq call of caller c is answered, or its retry timer
\* fires.
FreqAnswered(c) ==
    \/ \E k \in Creds : BootOk(c, k)
    \/ \E e \in BootErrors : BootFail(c, e)
    \/ \E rec \in Records : LookupOk(c, rec)
    \/ Lookup404(c)
    \/ LookupError(c)
    \/ Lookup401(c)
    \/ \E k \in Creds : RefreshOk(c, k)
    \/ \E e \in BootErrors : RefreshFail(c, e)
    \/ LookupNoResponse(c)
    \/ TimerFire(c)

\* WordFreqRecorder with a network that answers every request, with a response
\* or with a failure, and timers that fire.
SpecFreqLive == Init /\ [][FreqNext]_vars /\ WF_vars(FreqAnswered(Main))

\* A random draw answered, with k titles.
RandomAnswered(k) == RandomOk(k) \/ TopupOk(k)

\* An excerpts request answered with at least one set that has sentences.
ExcerptsFound ==
    \E a \in ExcerptAnswers(Len(nextTitles)) : NonEmpty(a) # <<>> /\ ExcerptsOk(a)

\* Every request of fillWithRandom is answered in the end (or fails), and the
\* wiki does not answer for ever with no title or with no sentences: a random
\* draw that is asked again and again gives a title again and again, and an
\* excerpts request that is made again and again gives sentences again and
\* again.
ContentFairness ==
    /\ WF_vars(\E k \in 0..MAX_SENTENCES : RandomAnswered(k))
    /\ WF_vars(\E a \in ExcerptAnswers(Len(nextTitles)) : ExcerptsOk(a))
    /\ SF_vars(\E k \in 1..MAX_SENTENCES : RandomAnswered(k))
    /\ SF_vars(ExcerptsFound)

\* Every request respond awaits before fillWithRandom is answered in the end
\* (or fails), and every retry timer fires.
RequestFairness ==
    /\ WF_vars(FreqAnswered(Main))
    /\ WF_vars(FreqReturn)
    /\ WF_vars(SearchFail \/ \E found \in SearchAnswers : SearchAnswer(found))

\* The bot with a network that answers and a wiki that keeps giving content;
\* whether respond is called again is up to the user.
SpecLive == Init /\ [][Next]_vars /\ RequestFairness /\ ContentFairness

\* A client of WordFreqRecorder calls getFreq as caller c, which has no call in
\* progress; the other caller may have one.
ConcurrentCall(c, w) ==
    /\ calls[c].pc \notin InFlight
    /\ GetFreqStart(c, w)
    /\ UNCHANGED botVars

\* WordFreqRecorder with two clients whose getFreq calls overlap, and a
\* frequency service that answers every lookup with a record, a 404 or a 5xx.
ConcurrentNext ==
    \E c \in Callers :
        \/ \E w \in RawWords : ConcurrentCall(c, w)
        \/ \E k \in Creds : BootOk(c, k)
        \/ \E e \in BootErrors : BootFail(c, e)
        \/ \E rec \in Records : LookupOk(c, rec)
        \/ Lookup404(c)
        \/ LookupError(c)
        \/ TimerFire(c)

SpecConcurrent == Init /\ [][ConcurrentNext]_vars

\* Three words whose frequency records earlier calls have left in the cache.
KnownWords == {"cat", "the", "wiki"}
\* The messages made of them.
KnownMessages == UNION {[1..n -> KnownWords] : n \in 0..MaxKnownMsgLen}

\* The bot after earlier calls: a credential is stored and the cache holds a
\* record for each of the three words.
KnownInit ==
    /\ cache \in [KnownWords -> Records]
    /\ cred = "k1"
    /\ calls = [c \in Callers |-> IdleCall]
    /\ rpc = "idle"
    /\ target = MIN_SENTENCES
    /\ strWords = <<>>
    /\ wordFreqs = <<>>
    /\ wordsByFreq = <<>>
    /\ currWordTitle = ""
    /\ wordTitles = <<>>
    /\ nextTitles = <<>>
    /\ excerpts = <<>>
    /\ response = <<>>
    /\ rerror = ""

\* respond on messages whose words are all in the cache: every getFreq call
\* resolves at once, and no frequency request is made.
KnownNext ==
    \/ \E q \in KnownMessages : Respond(q)
    \/ FreqReturn
    \/ \E found \in SearchAnswers : SearchAnswer(found)
    \/ SearchFail
    \/ \E k \in 0..MAX_SENTENCES : RandomOk(k)
    \/ \E k \in 0..MAX_SENTENCES : TopupOk(k)
    \/ \E e \in RequestErrors : RequestFail(e)
    \/ \E a \in ExcerptAnswers(Len(nextTitles)) : ExcerptsOk(a)

SpecKnown == KnownInit /\ [][KnownNext]_vars

\* fillWithRandom between lines 145 and 146: a sentence was sampled and is
\* about to be punctuated.
PunctInit ==
    /\ cache = [w \in {ToLowerCase(w) : w \in RawWords} |-> NoEntry]
    /\ cred = NoCred
    /\ calls = [c \in Callers |-> IdleCall]
    /\ rpc = "sampled"
    /\ target = MIN_SENTENCES
    /\ strWords = <<>>
    /\ wordFreqs = <<>>
    /\ wordsByFreq = <<>>
    /\ currWordTitle = ""
    /\ wordTitles = <<>>
    /\ nextTitles = <<>>
    /\ excerpts = <<>>
    /\ response \in {<<str>> : str \in SentenceStrings}
    /\ rerror = ""

\* .map(addMissingPunctuation)
MapPunctuation ==
    /\ rpc = "sampled"
    /\ response' = [i \in 1..Len(response) |-> addMissingPunctuation(response[i])]
    /\ rpc' = "done"
    /\ UNCHANGED <<freqVars, target, strWords, wordFreqs, wordsByFreq, currWordTitle,
                   wordTitles, nextTitles, excerpts, rerror>>

\* addMissingPunctuation alone, on every string of SentenceStrings.
SpecPunct == PunctInit /\ [][MapPunctuation]_vars

(***************************************************************************)
(* Properties.                                                             *)
(***************************************************************************)
\* The titles respond has gathered: its own array, then fillWithRandom's.
TitleSet == IF rpc \in {"topup", "excerpts"} THEN nextTitles ELSE wordTitles

\* The errors a getFreq call rejects with when its retries are exhausted.
LookupErrors == {"401", "500"}

\* C1: a respond call that returns has joined exactly as many sentences as the
\* target count it drew.
C1_SentenceCountIsTarget == rpc = "done" => Len(response) = target

\* C2: a getFreq call that resolves leaves its result under the lowercased word;
\* an entry of the cache never changes; and a call for a word that has an entry,
\* in any letter case, resolves at once with that entry (a stored undefined
\* too), with no lookup and no bootstrap request.
C2_CacheHit ==
    [][/\ calls'[Main].pc = "resolved" =>
              /\ cache'[CacheKey(calls'[Main].word)] = calls'[Main].value
              /\ calls'[Main].value.kind \in {"freq", "undefined"}
       /\ \A k \in DOMAIN cache : cache[k].kind # "none" => cache'[k] = cache[k]
       /\ \A w \in RawWords :
              (GetFreqCall(w) /\ cache[ToLowerCase(w)].kind # "none") =>
                  /\ calls'[Main].pc = "resolved"
                  /\ calls'[Main].value = cache[ToLowerCase(w)]
                  /\ calls'[Main].attempts = 0
                  /\ calls'[Main].boots = 0]_vars

\* A call for "Cat" came back from the cache with the undefined a 404 had left there.
C2_Witness ==
    /\ calls[Main].pc = "resolved"
    /\ calls[Main].word = "Cat"
    /\ calls[Main].attempts = 0
    /\ calls[Main].value = Undefined

\* C3: respond does not fail because a word's frequency lookups were exhausted
\* (the word is skipped instead).
C3_ExhaustionSkipsWord == rpc = "rejected" => rerror \notin LookupErrors

\* C4: respond rejects only with the failure of a credential bootstrap.
C4_OnlyBootstrapRejects == rpc = "rejected" => rerror \in BootErrors

\* C5: a getFreq call in which a credential bootstrap failed has rejected with
\* that failure.
C5_BootstrapFailureRejects ==
    \A c \in Callers :
        calls[c].bootFailed => calls[c].pc = "rejected" /\ calls[c].error \in BootErrors

\* C6, as claimed: a getFreq call issues at most 4 lookup attempts.
C6_AtMostFourAttempts == \A c \in Callers : calls[c].attempts <= Retries

\* C6, amended: a getFreq call issues at most 5 lookup attempts, the first and
\* 4 retries, and one that rejects for its lookups has made all 5 and rejects
\* with the last error.
C6_AtMostFiveAttempts ==
    \A c \in Callers :
        /\ calls[c].attempts <= Retries + 1
        /\ (calls[c].pc = "rejected" /\ ~calls[c].bootFailed) =>
               /\ calls[c].attempts = Retries + 1
               /\ calls[c].error = calls[c].last
               /\ calls[c].error \in LookupErrors

\* A call rejected after its fifth lookup.
C6_Witness == calls[Main].pc = "rejected" /\ calls[Main].attempts = Retries + 1

\* C7: a 404, on whichever attempt, ends the call: it has resolved with
\* undefined and undefined is stored under the lowercased word.
C7_NotFoundIsSuccess ==
    \A c \in Callers :
        calls[c].last = "404" =>
            /\ calls[c].pc = "resolved"
            /\ calls[c].value = Undefined
            /\ cache[ToLowerCase(calls[c].word)] = Undefined

\* The third attempt of a call for "Cat" answered 404.
C7_Witness ==
    /\ calls[Main].last = "404"
    /\ calls[Main].attempts = 3
    /\ calls[Main].word = "Cat"

\* C8: a call that resolved with a record after exactly one 401 made exactly one
\* refresh, sent the refreshed credential afterwards, used one retry per failed
\* attempt (one, when the 401 was the only failure), and cached the record.
C8_RefreshOnceThenSucceed ==
    LET call == calls[Main] IN
    (call.pc = "resolved" /\ call.last = "ok" /\ call.unauthorized = 1) =>
        /\ call.refreshes = 1
        /\ call.refreshed \in Creds
        /\ call.sent = call.refreshed
        /\ call.timeouts = Retries - (call.attempts - 1)
        /\ call.value \in Records
        /\ cache[ToLowerCase(call.word)] = call.value

\* The first lookup answered 401 and the second a record.
C8_Witness ==
    /\ calls[Main].pc = "resolved"
    /\ calls[Main].last = "ok"
    /\ calls[Main].unauthorized = 1
    /\ calls[Main].attempts = 2
    /\ calls[Main].timeouts = Retries - 1

\* The candidates respond has yet to search, the one being searched first.
CandidateWords ==
    (IF rpc = "search" THEN <<currWordTitle>> ELSE <<>>) \o wordsByFreq

\* C9: no candidate word has a perMillion of 1000 or more, none is without
\* frequency data, and none occurs twice.
C9_CandidatesRareKnownDistinct ==
    /\ \A i \in 1..Len(CandidateWords) :
           /\ cache[CandidateWords[i]].kind = "freq"
           /\ cache[CandidateWords[i]].perMillion < Threshold
           /\ \E j \in 1..Len(wordFreqs) :
                  /\ wordFreqs[j].word = CandidateWords[i]
                  /\ wordFreqs[j].freq = cache[CandidateWords[i]]
    /\ \A i, j \in 1..Len(CandidateWords) :
           i # j => ToLowerCase(CandidateWords[i]) # ToLowerCase(CandidateWords[j])

\* Of two words with frequency data, one is a candidate and the other was left out.
C9_Witness ==
    /\ rpc = "search"
    /\ Len(wordFreqs) = 2
    /\ wordsByFreq = <<>>
    /\ wordTitles = <<>>

\* C10, as claimed: a search that finds titles adds the first of them to the
\* title set, one that finds none adds nothing.
C10_FirstFoundTitleAdded ==
    [][\A found \in SearchAnswers :
           SearchAnswer(found) =>
               TitleSet' = IF Len(found) > 0 THEN Append(wordTitles, found[1])
                                             ELSE wordTitles]_vars

\* C10, amended: a search that finds titles adds the candidate word itself to
\* the title set, one that finds none adds nothing.
C10_SearchedWordAdded ==
    [][\A found \in SearchAnswers :
           SearchAnswer(found) =>
               TitleSet' = IF Len(found) > 0 THEN Append(wordTitles, currWordTitle)
                                             ELSE wordTitles]_vars

\* The search for "cat" found a title and the title set holds "cat".
C10_Witness ==
    /\ rpc \in {"search", "random"}
    /\ Len(wordTitles) > 0
    /\ wordTitles[1] = "cat"

\* Every title of ts is a random draw's.
AllRandom(ts) == \A i \in 1..Len(ts) : ts[i] = RandomTitle

\* The entries of getWordFreqs when the awaited getFreq has resolved for the
\* last word of the message.
FinalWordFreqs ==
    IF calls[Main].value # Undefined
        THEN Append(wordFreqs, [word |-> Head(strWords), freq |-> calls[Main].value])
        ELSE wordFreqs

\* The awaited getFreq resolved and no word of the message is left to look up.
LastWordResolved ==
    /\ rpc = "freq"
    /\ calls[Main].pc = "resolved"
    /\ SkipDuplicates(Tail(strWords), FinalWordFreqs) = <<>>

\* C11: respond with the empty message issues no frequency lookup and no
\* search, and goes to the random draw with no title; so does respond when
\* every word of the message has no frequency data or a perMillion of 1000 or
\* more; and from a random draw with no title on, every title submitted for
\* excerpts is a random draw's.
C11_NoCandidateAllRandom ==
    [][/\ Respond(<<>>) =>
              /\ rpc' = "random"
              /\ wordTitles' = <<>>
              /\ calls'[Main] = IdleCall
       /\ (/\ FreqReturn
           /\ LastWordResolved
           /\ \A i \in 1..Len(FinalWordFreqs) :
                  FinalWordFreqs[i].freq.perMillion >= Threshold) =>
              /\ rpc' = "random"
              /\ wordTitles' = <<>>
       /\ (rpc = "random" /\ wordTitles = <<>> /\ rpc' \in {"topup", "excerpts"}) =>
              AllRandom(nextTitles')
       /\ (rpc \in {"topup", "excerpts"} /\ AllRandom(nextTitles)
             /\ rpc' \in {"topup", "excerpts"}) =>
              AllRandom(nextTitles')]_vars

\* Only random titles are submitted for excerpts when "cat" has no frequency
\* data, "the" has a perMillion of 1000, and so no message has had a candidate.
C11_Witness ==
    /\ rpc = "excerpts"
    /\ Len(nextTitles) >= MIN_SENTENCES
    /\ AllRandom(nextTitles)
    /\ cache["cat"] = Undefined
    /\ cache["the"] = Freq(Threshold)

\* The candidate words as a set.
CandidateSet == {CandidateWords[i] : i \in 1..Len(CandidateWords)}

\* C12: a failed search is swallowed: respond does not reject, the title set is
\* as it was, the word is not among the candidates left (which only ever lose
\* their head, so it is not searched again), the next candidate is searched if
\* there is one, and when none is left the titles missing from the target are
\* asked of the random draw.
C12_SearchFailureSwallowed ==
    [][/\ SearchFail =>
              /\ rpc' # "rejected"
              /\ rerror' = rerror
              /\ TitleSet' = wordTitles
              /\ currWordTitle \notin CandidateSet'
              /\ IF wordsByFreq # <<>>
                    THEN /\ rpc' = "search"
                         /\ currWordTitle' = Head(wordsByFreq)
                         /\ wordsByFreq' = Tail(wordsByFreq)
                    ELSE /\ rpc' = "random"
                         /\ Len(wordTitles') < target'
       /\ (rpc = "search" /\ rpc' = "search") =>
              CandidateWords' = Tail(CandidateWords)]_vars

\* The search for "cat", the rarer candidate, gave no title (a failed search
\* leaves this state), the search for "the" found one, and the random draw is
\* asked for the rest.
C12_Witness ==
    /\ rpc = "random"
    /\ wordTitles = <<"the">>
    /\ cache["cat"].kind = "freq"
    /\ cache["cat"].perMillion < cache["the"].perMillion
    /\ cache["the"].perMillion < Threshold

\* C13: a respond call that is in fillWithRandom, or about to enter it,
\* eventually samples its excerpts and returns.
C13_FillReturns ==
    (rpc \in {"random", "topup", "excerpts"}) ~> (rpc = "done")

\* C14: the excerpt sets fillWithRandom accumulates all have sentences, and a
\* response that is returned holds at least target (so at least MIN_SENTENCES)
\* sentences, each one a sentence of an article and none the sample of an
\* empty set.
C14_NeverUnderFilled ==
    /\ \A i \in 1..Len(excerpts) : excerpts[i] # NoSentences
    /\ rpc = "done" =>
           /\ target >= MIN_SENTENCES
           /\ Len(response) >= target
           /\ \A i \in 1..Len(response) :
                  /\ response[i] # UndefinedDot
                  /\ response[i] \in SampleOf(Article)

\* A response of MAX_SENTENCES sentences was returned.
C14_Witness ==
    /\ rpc = "done"
    /\ target = MAX_SENTENCES
    /\ Len(response) = MAX_SENTENCES
    /\ response[1] = addMissingPunctuation(Sentence)

\* C15: addMissingPunctuation returns a string that ends in one of . ! ? : ; ,
\* as it is, and any other string with exactly one '.' added; what it returns
\* ends in one of the six, and is returned as it is when punctuated again.
C15_PunctuationFixup ==
    [][MapPunctuation =>
           \A i \in 1..Len(response) :
               /\ response'[i] =
                      IF /\ Len(response[i]) > 0
                         /\ response[i][Len(response[i])] \in {".", "!", "?", ":", ";", ","}
                         THEN response[i]
                         ELSE response[i] \o <<".">>
               /\ response'[i][Len(response'[i])] \in {".", "!", "?", ":", ";", ","}
               /\ addMissingPunctuation(response'[i]) = response'[i]]_vars

\* "a!" came back as it was.
C15_Witness == rpc = "done" /\ response = <<(<<"a", "!">>)>>

\* The perMillion of the word w in the entries wf.
PerMillionIn(wf, w) ==
    LET i == CHOOSE j \in 1..Len(wf) : wf[j].word = w IN wf[i].freq.perMillion

\* While a search is awaited: the target is not reached, the word searched is
\* no more frequent than the candidates left, which are in ascending order of
\* perMillion, and the titles so far are of words no more frequent than it.
SearchInOrder ==
    rpc = "search" =>
        /\ Len(wordTitles) < target
        /\ \A i, j \in 1..Len(CandidateWords) :
               i < j => PerMillionIn(wordFreqs, CandidateWords[i])
                            <= PerMillionIn(wordFreqs, CandidateWords[j])
        /\ \A i \in 1..Len(wordTitles) :
               PerMillionIn(wordFreqs, wordTitles[i])
                   <= PerMillionIn(wordFreqs, currWordTitle)

\* C16: the search loop starts with no title and with every word of perMillion
\* under 1000 as a candidate; one search is awaited at a time, for the rarest
\* candidate left; after a search the next candidate is searched if and only
\* if the titles are fewer than target and a candidate is left; and the word
\* titles never number more than target.
C16_RarestFirstUntilTarget ==
    [][/\ SearchInOrder'
       /\ (rpc = "freq" /\ rpc' = "search") =>
              /\ wordTitles' = <<>>
              /\ CandidateSet' =
                     {wordFreqs'[i].word : i \in {j \in 1..Len(wordFreqs') :
                          wordFreqs'[j].freq.perMillion < Threshold}}
       /\ rpc = "search" =>
              /\ Len(TitleSet') <= target
              /\ rpc' = "search" <=> (Len(TitleSet') < target /\ wordsByFreq # <<>>)
              /\ rpc' = "search" =>
                     /\ currWordTitle' = Head(wordsByFreq)
                     /\ wordsByFreq' = Tail(wordsByFreq)
                     /\ wordFreqs' = wordFreqs]_vars

\* With a target of 2 and one title found, the second search is awaited and a
\* third candidate is left: it is searched only if this search gives no title.
C16_Witness ==
    /\ rpc = "search"
    /\ target = MIN_SENTENCES
    /\ wordTitles = <<"cat">>
    /\ currWordTitle = "the"
    /\ wordsByFreq = <<"wiki">>
    /\ cache["cat"].perMillion < cache["the"].perMillion
    /\ cache["the"].perMillion = cache["wiki"].perMillion
    /\ cache["wiki"].perMillion < Threshold

\* C17: the number of titles fillWithRandom asks the random draw for is the
\* target less the excerpt sets accumulated and less the titles already in the
\* batch, and the titles of one excerpts request are no more than the target
\* less the accumulated sets.
C17_TopupIsShortfall ==
    /\ rpc = "topup" => TopupCount = target - Len(excerpts) - Len(nextTitles)
    /\ rpc = "excerpts" => Len(nextTitles) <= target - Len(excerpts)

\* C18: every getFreq call that is in progress eventually resolves or rejects,
\* whatever the failures of its lookups (unauthorized, server error, or no HTTP
\* response at all).
C18_EveryCallSettles ==
    calls[Main].pc \in InFlight ~> calls[Main].pc \in {"resolved", "rejected"}

\* C19: whatever the interleaving of getFreq calls, a key of the cache is never
\* removed and its value never changes.
C19_CacheOnlyGrows ==
    [][\A k \in DOMAIN cache :
           cache[k].kind # "none" => cache'[k] = cache[k]]_vars

\* C20: only the step that resolves a getFreq call writes the cache, so a call
\* that rejects has left it as it was; the word of a rejected call has no
\* entry; and the next call for that word resolves with nothing cached: it
\* makes a bootstrap or a lookup request.
C20_RejectionCachesNothing ==
    [][/\ calls'[Main].pc # "resolved" => cache' = cache
       /\ calls'[Main].pc = "rejected" =>
              cache'[CacheKey(calls'[Main].word)] = NoEntry
       /\ \A w \in RawWords :
              (/\ GetFreqCall(w)
               /\ calls[Main].pc = "rejected"
               /\ CacheKey(calls[Main].word) = CacheKey(w)) =>
                  /\ calls'[Main].pc \in {"boot", "lookup"}
                  /\ calls'[Main].attempts + calls'[Main].boots = 1]_vars

\* A call for "Cat" rejected after its retries, with the cache holding an
\* entry for "the" and none for "cat".
C20_Witness ==
    /\ calls[Main].pc = "rejected"
    /\ calls[Main].word = "Cat"
    /\ calls[Main].error \in LookupErrors
    /\ cache["the"].kind # "none"
    /\ cache["cat"] = NoEntry

=============================================================================
